---- MODULE Spec2Model ----
(***************************************************************************)
(* Model of cli/src/device/emulator.py (class Emulator): the readiness     *)
(* poller check_adb_command and its driver wait_until_ready, the device    *)
(* constructor with its shared adb_name_id counter, is_initialized and     *)
(* move_userdata.  Texts (command outputs, keywords, config lines) are     *)
(* TLA+ strings, compared character by character as Python does.           *)
(***************************************************************************)
EXTENDS Integers, Sequences, FiniteSets, TLC

(***************************************************************************)
(* Bounds of the model.                                                    *)
(***************************************************************************)
\* largest max_attempts of a direct call of check_adb_command
MaxAttempts == 4
\* number of Emulator objects constructed in one process
NumDevices == 3
\* largest number of lines of config.ini
MaxConfigLines == 2

(***************************************************************************)
(* Text helpers: str.lower and the substring test "k in s".                *)
(***************************************************************************)
UpperChars == "ABCDEFGHIJKLMNOPQRSTUVWXYZ"
LowerChars == "abcdefghijklmnopqrstuvwxyz"

CharAt(s, i) == SubSeq(s, i, i)

LowerChar(c) ==
    IF \E i \in 1..Len(UpperChars) : CharAt(UpperChars, i) = c
    THEN LET i == CHOOSE j \in 1..Len(UpperChars) : CharAt(UpperChars, j) = c
         IN  CharAt(LowerChars, i)
    ELSE c

RECURSIVE lower(_)
lower(s) ==
    IF Len(s) = 0 THEN ""
    ELSE LowerChar(CharAt(s, 1)) \o lower(SubSeq(s, 2, Len(s)))

\* Python's  k in s  for two strings
Contains(k, s) ==
    \E i \in 0..(Len(s) - Len(k)) : SubSeq(s, i + 1, i + Len(k)) = k

\* k occurs in s when letter case is ignored on both sides
ContainsIgnoreCase(k, s) ==
    \E i \in 0..(Len(s) - Len(k)) :
        \A j \in 1..Len(k) : LowerChar(CharAt(s, i + j)) = LowerChar(CharAt(k, j))

(***************************************************************************)
(* Emulator.ReadinessCheck                                                 *)
(***************************************************************************)
BOOTED == "booted"
RUN_STATE == "in running state"
WELCOME_SCREEN == "in welcome screen"
POP_UP_WINDOW == "pop up window"
ReadinessCheck == {BOOTED, RUN_STATE, WELCOME_SCREEN, POP_UP_WINDOW}

(***************************************************************************)
(* Arguments wait_until_ready passes to check_adb_command.                 *)
(***************************************************************************)
boot_keyword == "1"
boot_max_attempts == 60
max_attempt_pop_up == 3
pop_up_system_ui == "Not Responding: com.android.systemui"
pop_up_key_enter ==
    { "Not Responding: com.google.android.gms",
      "Not Responding: system",
      "ConversationListActivity" }
welcome_keyword == "launcheractivity"
welcome_max_attempts == 60

\* outcome of a command that exits non-zero (subprocess.CalledProcessError)
CalledProcessError == "subprocess.CalledProcessError"

\* texts the diagnostic command may print
DiagOutputs ==
    { "",
      "1",
      "mCurrentFocus=Window{1f2 u0 com.android.launcher3/.LauncherActivity}",
      "mcurrentfocus=window{1f2 u0 launcheractivity}",
      "mCurrentFocus=Window{1f2 u0 Application Not Responding: com.android.systemui}",
      "mCurrentFocus=Window{1f2 u0 Application Not Responding: com.google.android.gms}",
      "mCurrentFocus=Window{1f2 u0 Application Not Responding: system}",
      "mCurrentFocus=Window{1f2 u0 com.android.messaging/.ConversationListActivity}" }

DiagOutcomes == DiagOutputs \cup {CalledProcessError}

\* expected_keyword values of direct calls: those of wait_until_ready and
\* one pop-up signature written in lower case
DirectKeywords ==
    {boot_keyword, pop_up_system_ui, welcome_keyword, "not responding: system"}
    \cup pop_up_key_enter

VARIABLES
    pc,                    \* position of check_adb_command: idle, loop, returned, raised
    readiness_check_type,  \* argument
    expected_keyword,      \* argument
    max_attempts,          \* argument
    attempt,               \* loop variable _ (0: not yet bound)
    success,               \* local variable
    diagCalls,             \* invocations of bash_command in this call
    actionCalls,           \* invocations of adb_action in this call
    sawMatch,              \* some attempt took the keyword branch
    sawFail,               \* bash_command or adb_action raised CalledProcessError
    sawVerbatim,           \* some output contained expected_keyword as written
    diagAfterMatch,        \* bash_command ran after an attempt that matched
    diagAfterVerbatim,     \* bash_command ran after an output with the keyword
    firstAnyCase,          \* the first output contained the keyword, any case
    lastSleep,             \* "none", "interval_waiting_time" or "2"
    slept,                 \* time.sleep was called in this call
    notFoundLogged,        \* "Pop up windows ... is not found!" was logged
    checkedTimes,          \* the count in "... is checked N times!" (-1: _ unbound)
    stage,                 \* position of wait_until_ready
    pop_up_left,           \* members of pop_up_key_enter not yet checked
    lastOutcome,           \* how the last attempt ended: none, failed, miss, match, action failed
    total_diag,            \* invocations of bash_command since the object was idle
    matched_checks,        \* kinds of the checks that took the keyword branch
    wur_trace,             \* what wait_until_ready has entered, in order
    adb_name_id,           \* class attribute Emulator.adb_name_id
    inst,                  \* the Emulator objects under construction or constructed
    built,                 \* adb_name ids of the constructed objects, in order of completion
    path_emulator_config,  \* config.ini: NoFile or its lines
    device,                \* self.device of the object asked is_initialized
    initialized,           \* result of is_initialized ("none" before the call)
    emulator_userdata,     \* live directory: file name -> content or NoFile
    path_user_data,        \* durable store: file name -> content or NoFile
    move_i,                \* index into userdata_filenames of move_userdata (0: not called)
    live_before,           \* the live directory when move_userdata was called
    rm_issued,             \* file names for which rm was run
    seen_after_copy,       \* file names os.path.exists found after the copy
    move_log,              \* per file handled by move_userdata: the two messages logged
    td_pc,                 \* position of tear_down: idle, backup, returned, raised
    backup_i,              \* index into userdata_filenames of backup
    backup_calls,          \* calls of backup
    cp_attempted,          \* file names backup ran cp on, in order
    cp_failed,             \* file names whose cp exited non-zero in backup
    create_pc,             \* position of create
    create_trace,          \* what create has done, in order
    creation_calls,        \* runs of the avdmanager command
    config_before,         \* config.ini when create was called
    user_data_dir,         \* the directory path_user_data exists
    no_skin,               \* self.no_skin
    start_pc,              \* position of start (or of a direct call of deploy)
    kvm_exists,            \* /dev/kvm exists
    perm_log,              \* exit statuses of the commands of change_permission
    launched,              \* processes started by subprocess.Popen
    data_arg               \* file named after -initdata in start_cmd ("": no flag)

pollVars ==
    << pc, readiness_check_type, expected_keyword, max_attempts, attempt, success,
       diagCalls, actionCalls, sawMatch, sawFail, sawVerbatim, diagAfterMatch,
       diagAfterVerbatim, firstAnyCase, lastSleep, slept, notFoundLogged,
       checkedTimes, stage, pop_up_left, lastOutcome, total_diag, matched_checks,
       wur_trace >>

ctorVars == << adb_name_id, inst, built >>
configVars == << path_emulator_config, device, initialized >>
moveVars == << emulator_userdata, path_user_data, move_i, live_before, rm_issued,
               seen_after_copy, move_log >>

tearVars == << td_pc, backup_i, backup_calls, cp_attempted, cp_failed >>
createVars == << create_pc, create_trace, creation_calls, config_before, user_data_dir,
                 no_skin >>
startVars == << start_pc, kvm_exists, perm_log, launched, data_arg >>
lifeVars == << tearVars, createVars, startVars >>

vars == << pollVars, ctorVars, configVars, moveVars, lifeVars >>

(***************************************************************************)
(* check_adb_command                                                       *)
(***************************************************************************)
\* variant of AttemptRange: the loop runs max_attempts times
AttemptRangeInclusive(n) == 1..n

\* range(1, max_attempts)
AttemptRange(n) == 1..(n - 1)

\* variant of KeywordMatch: the output is not lower-cased
KeywordMatchCaseSensitive(keyword, output) == Contains(keyword, output)

\* expected_keyword in str(output).lower()
KeywordMatch(keyword, output) == Contains(keyword, lower(output))

\* variant of ExhaustedPc: exhaustion raises for every kind
ExhaustedPcAlwaysRaises(kind) == "raised"

\* variant of FailureSleep: the failure path sleeps the configured interval
FailureSleepInterval == "interval_waiting_time"

\* time.sleep(2) of the except clause
FailureSleep == "2"

\* the else clause of the for loop: pop-up exhaustion is logged, any other raises
ExhaustedPc(kind) == IF kind = POP_UP_WINDOW THEN "returned" ELSE "raised"

\* the three classifications of every (keyword, output) pair, computed once
KeywordMatches ==
    [k \in DirectKeywords, o \in DiagOutputs |-> KeywordMatch(k, o)]
VerbatimMatches ==
    [k \in DirectKeywords, o \in DiagOutputs |-> Contains(k, o)]
AnyCaseMatches ==
    [k \in DirectKeywords, o \in DiagOutputs |-> ContainsIgnoreCase(k, o)]

\* entry of check_adb_command: success = False, nothing executed yet
Enter(kind, keyword, n) ==
    /\ pc' = "loop"
    /\ readiness_check_type' = kind
    /\ expected_keyword' = keyword
    /\ max_attempts' = n
    /\ attempt' = 0
    /\ success' = FALSE
    /\ diagCalls' = 0
    /\ actionCalls' = 0
    /\ sawMatch' = FALSE
    /\ sawFail' = FALSE
    /\ sawVerbatim' = FALSE
    /\ diagAfterMatch' = FALSE
    /\ diagAfterVerbatim' = FALSE
    /\ firstAnyCase' = FALSE
    /\ lastSleep' = "none"
    /\ slept' = FALSE
    /\ notFoundLogged' = FALSE
    /\ checkedTimes' = 0
    /\ lastOutcome' = "none"

\* a direct call of check_adb_command by a user of the class
check_adb_command ==
    /\ UNCHANGED << ctorVars, configVars, moveVars, lifeVars >>
    /\ pc = "idle"
    /\ stage = "none"
    /\ \E kind \in ReadinessCheck, keyword \in DirectKeywords, n \in 0..MaxAttempts :
           Enter(kind, keyword, n)
    /\ UNCHANGED << stage, pop_up_left, total_diag, matched_checks, wur_trace >>

\* history kept for every invocation of bash_command
DiagInvoked(o) ==
    /\ attempt' = attempt + 1
    /\ diagCalls' = diagCalls + 1
    /\ total_diag' = total_diag + 1
    /\ diagAfterMatch' = (diagAfterMatch \/ sawMatch)
    /\ diagAfterVerbatim' = (diagAfterVerbatim \/ sawVerbatim)
    /\ sawVerbatim' = (sawVerbatim \/ (o # CalledProcessError /\ VerbatimMatches[expected_keyword, o]))
    /\ firstAnyCase' = IF diagCalls = 0
                       THEN o # CalledProcessError /\ AnyCaseMatches[expected_keyword, o]
                       ELSE firstAnyCase

\* one iteration: bash_command exits non-zero
AttemptFailed ==
    /\ UNCHANGED << ctorVars, configVars, moveVars, lifeVars >>
    /\ pc = "loop"
    /\ attempt + 1 \in AttemptRange(max_attempts)
    /\ ~success
    /\ DiagInvoked(CalledProcessError)
    /\ sawFail' = TRUE
    /\ lastSleep' = FailureSleep
    /\ lastOutcome' = "failed"
    /\ slept' = TRUE
    /\ UNCHANGED << pc, readiness_check_type, expected_keyword, max_attempts, success,
                    actionCalls, sawMatch, notFoundLogged, checkedTimes, stage, pop_up_left,
                    matched_checks, wur_trace >>

\* one iteration: the output does not contain the keyword
AttemptMiss ==
    /\ UNCHANGED << ctorVars, configVars, moveVars, lifeVars >>
    /\ pc = "loop"
    /\ attempt + 1 \in AttemptRange(max_attempts)
    /\ ~success
    /\ \E o \in DiagOutputs :
           /\ ~KeywordMatches[expected_keyword, o]
           /\ DiagInvoked(o)
    /\ lastSleep' = "interval_waiting_time"
    /\ slept' = TRUE
    /\ lastOutcome' = "miss"
    /\ UNCHANGED << pc, readiness_check_type, expected_keyword, max_attempts, success,
                    actionCalls, sawMatch, sawFail, notFoundLogged, checkedTimes,
                    stage, pop_up_left,
                    matched_checks, wur_trace >>

\* one iteration: keyword found, kind is not POP_UP_WINDOW
AttemptMatch ==
    /\ UNCHANGED << ctorVars, configVars, moveVars, lifeVars >>
    /\ pc = "loop"
    /\ attempt + 1 \in AttemptRange(max_attempts)
    /\ ~success
    /\ readiness_check_type # POP_UP_WINDOW
    /\ \E o \in DiagOutputs :
           /\ KeywordMatches[expected_keyword, o]
           /\ DiagInvoked(o)
    /\ success' = TRUE
    /\ sawMatch' = TRUE
    /\ lastOutcome' = "match"
    /\ matched_checks' = matched_checks \cup {readiness_check_type}
    /\ UNCHANGED << pc, readiness_check_type, expected_keyword, max_attempts,
                    actionCalls, sawFail, lastSleep, slept, notFoundLogged,
                    checkedTimes, stage, pop_up_left,
                    wur_trace >>

\* one iteration: keyword found, kind is POP_UP_WINDOW: adb_action is run;
\* when it exits non-zero the except clause sleeps 2 seconds
AttemptPopUp ==
    /\ UNCHANGED << ctorVars, configVars, moveVars, lifeVars >>
    /\ pc = "loop"
    /\ attempt + 1 \in AttemptRange(max_attempts)
    /\ ~success
    /\ readiness_check_type = POP_UP_WINDOW
    /\ \E o \in DiagOutputs :
           /\ KeywordMatches[expected_keyword, o]
           /\ DiagInvoked(o)
    /\ actionCalls' = actionCalls + 1
    /\ sawMatch' = TRUE
    /\ matched_checks' = matched_checks \cup {readiness_check_type}
    /\ \E actionOk \in BOOLEAN :
           IF actionOk
           THEN /\ lastOutcome' = "match"
                /\ UNCHANGED << sawFail, lastSleep, slept >>
           ELSE /\ lastOutcome' = "action failed"
                /\ sawFail' = TRUE
                /\ lastSleep' = FailureSleep
                /\ slept' = TRUE
    /\ UNCHANGED << pc, readiness_check_type, expected_keyword, max_attempts, success,
                    notFoundLogged, checkedTimes, stage, pop_up_left,
                    wur_trace >>

\* if success: break  (the else clause of the loop is skipped)
Break ==
    /\ UNCHANGED << ctorVars, configVars, moveVars, lifeVars >>
    /\ pc = "loop"
    /\ attempt + 1 \in AttemptRange(max_attempts)
    /\ success
    /\ pc' = "returned"
    /\ attempt' = attempt + 1
    /\ UNCHANGED << readiness_check_type, expected_keyword, max_attempts, success,
                    diagCalls, actionCalls, sawMatch, sawFail, sawVerbatim,
                    diagAfterMatch, diagAfterVerbatim, firstAnyCase, lastSleep, slept,
                    notFoundLogged, checkedTimes, stage, pop_up_left,
                    lastOutcome, total_diag, matched_checks, wur_trace >>

\* the range is used up: the else clause of the for loop runs
Exhausted ==
    /\ UNCHANGED << ctorVars, configVars, moveVars, lifeVars >>
    /\ pc = "loop"
    /\ attempt + 1 \notin AttemptRange(max_attempts)
    /\ pc' = ExhaustedPc(readiness_check_type)
    /\ notFoundLogged' = (readiness_check_type = POP_UP_WINDOW)
    /\ checkedTimes' = IF readiness_check_type = POP_UP_WINDOW THEN 0
                       ELSE IF attempt = 0 THEN -1 ELSE attempt
    /\ stage' = IF stage # "none" /\ ExhaustedPc(readiness_check_type) = "raised"
                THEN "aborted" ELSE stage
    /\ UNCHANGED << readiness_check_type, expected_keyword, max_attempts, attempt, success,
                    diagCalls, actionCalls, sawMatch, sawFail, sawVerbatim,
                    diagAfterMatch, diagAfterVerbatim, firstAnyCase, lastSleep, slept,
                    pop_up_left,
                    lastOutcome, total_diag, matched_checks, wur_trace >>

(***************************************************************************)
(* wait_until_ready                                                        *)
(***************************************************************************)
\* the BOOTED check is entered
wait_until_ready ==
    /\ UNCHANGED << ctorVars, configVars, moveVars, lifeVars >>
    /\ pc = "idle"
    /\ stage = "none"
    /\ Enter(BOOTED, boot_keyword, boot_max_attempts)
    /\ stage' = "booted"
    /\ wur_trace' = << "booted" >>
    /\ UNCHANGED << pop_up_left, total_diag, matched_checks >>

\* time.sleep(interval_after_booting), then the check of pop_up_system_ui
SettleAndPopUpSystemUi ==
    /\ UNCHANGED << ctorVars, configVars, moveVars, lifeVars >>
    /\ pc = "returned"
    /\ stage = "booted"
    /\ Enter(POP_UP_WINDOW, pop_up_system_ui, max_attempt_pop_up)
    /\ stage' = "pop_up_system_ui"
    /\ pop_up_left' = pop_up_key_enter
    /\ wur_trace' = wur_trace \o << "settle", "pop_up_system_ui" >>
    /\ UNCHANGED << total_diag, matched_checks >>

\* for pe in pop_up_key_enter: a set, iterated in no particular order
PopUpKeyEnter ==
    /\ UNCHANGED << ctorVars, configVars, moveVars, lifeVars >>
    /\ pc = "returned"
    /\ stage \in {"pop_up_system_ui", "pop_up_key_enter"}
    /\ \E pe \in pop_up_left :
           /\ Enter(POP_UP_WINDOW, pe, max_attempt_pop_up)
           /\ pop_up_left' = pop_up_left \ {pe}
           /\ wur_trace' = Append(wur_trace, pe)
    /\ stage' = "pop_up_key_enter"
    /\ UNCHANGED << total_diag, matched_checks >>

\* variant of WelcomeScreen: entered without waiting for the loop over
\* pop_up_key_enter to end
WelcomeScreenEarly ==
    /\ UNCHANGED << ctorVars, configVars, moveVars, lifeVars >>
    /\ pc = "returned"
    /\ stage \in {"pop_up_system_ui", "pop_up_key_enter"}
    /\ Enter(WELCOME_SCREEN, welcome_keyword, welcome_max_attempts)
    /\ stage' = "welcome_screen"
    /\ wur_trace' = Append(wur_trace, "welcome_screen")
    /\ UNCHANGED << pop_up_left, total_diag, matched_checks >>

\* the WELCOME_SCREEN check is entered
WelcomeScreen ==
    /\ UNCHANGED << ctorVars, configVars, moveVars, lifeVars >>
    /\ pc = "returned"
    /\ stage = "pop_up_key_enter"
    /\ pop_up_left = {}
    /\ Enter(WELCOME_SCREEN, welcome_keyword, welcome_max_attempts)
    /\ stage' = "welcome_screen"
    /\ wur_trace' = Append(wur_trace, "welcome_screen")
    /\ UNCHANGED << pop_up_left, total_diag, matched_checks >>

\* "... is ready to use" is logged
Ready ==
    /\ UNCHANGED << ctorVars, configVars, moveVars, lifeVars >>
    /\ pc = "returned"
    /\ stage = "welcome_screen"
    /\ stage' = "ready"
    /\ wur_trace' = Append(wur_trace, "ready")
    /\ UNCHANGED << pc, readiness_check_type, expected_keyword, max_attempts, attempt,
                    success, diagCalls, actionCalls, sawMatch, sawFail, sawVerbatim,
                    diagAfterMatch, diagAfterVerbatim, firstAnyCase, lastSleep, slept,
                    notFoundLogged, checkedTimes, pop_up_left, lastOutcome,
                    total_diag, matched_checks >>

PollInit ==
    /\ pc = "idle"
    /\ readiness_check_type = BOOTED
    /\ expected_keyword = ""
    /\ max_attempts = 0
    /\ attempt = 0
    /\ success = FALSE
    /\ diagCalls = 0
    /\ actionCalls = 0
    /\ sawMatch = FALSE
    /\ sawFail = FALSE
    /\ sawVerbatim = FALSE
    /\ diagAfterMatch = FALSE
    /\ diagAfterVerbatim = FALSE
    /\ firstAnyCase = FALSE
    /\ lastSleep = "none"
    /\ slept = FALSE
    /\ notFoundLogged = FALSE
    /\ checkedTimes = 0
    /\ stage = "none"
    /\ pop_up_left = {}
    /\ lastOutcome = "none"
    /\ total_diag = 0
    /\ matched_checks = {}
    /\ wur_trace = << >>

PollNext ==
    \/ check_adb_command
    \/ AttemptFailed
    \/ AttemptMiss
    \/ AttemptMatch
    \/ AttemptPopUp
    \/ Break
    \/ Exhausted
    \/ wait_until_ready
    \/ SettleAndPopUpSystemUi
    \/ PopUpKeyEnter
    \/ WelcomeScreen
    \/ Ready

(***************************************************************************)
(* Emulator.__init__ and the class attribute adb_name_id                   *)
(***************************************************************************)
DEVICE ==
    { "Nexus 4", "Nexus 5", "Nexus 7", "Nexus One", "Nexus S",
      "Samsung Galaxy S6", "Samsung Galaxy S7", "Samsung Galaxy S7 Edge",
      "Samsung Galaxy S8", "Samsung Galaxy S9", "Samsung Galaxy S10" }

API_LEVEL ==
    ("9.0" :> "28") @@ ("10.0" :> "29") @@ ("11.0" :> "30") @@
    ("12.0" :> "32") @@ ("13.0" :> "33")

\* adb_name_id = 5554
InitialAdbNameId == 5554

\* the device and android_version arguments tried
DeviceArgs == {"Nexus 5", "Samsung Galaxy S7 Edge", "Pixel 4"}
VersionArgs == {"9.0", "13.0", "8.1"}

Instances == 1..NumDevices

NewInstance ==
    [ pc |-> "new", device |-> "", android_version |-> "", api_level |-> "",
      adb_name |-> 0, paths |-> FALSE, loaded |-> 0, id_at_exit |-> 0 ]

\* variant of SupportedDevice: the membership test is missing
SupportedDeviceUnchecked(d) == TRUE

\* device in self.DEVICE
SupportedDevice(d) == d \in DEVICE

\* android_version in self.API_LEVEL.keys()
SupportedVersion(v) == v \in DOMAIN API_LEVEL

\* variant of IncrementedId: the counter advances by one
IncrementedIdByOne(id) == id + 1

\* Emulator.adb_name_id += 2, the value stored
IncrementedId(id) == id + 2

\* self.adb_name = f"emulator-{Emulator.adb_name_id}"
ReadAdbNameId(p) ==
    /\ UNCHANGED << pollVars, configVars, moveVars, lifeVars >>
    /\ inst[p].pc = "new"
    /\ \E d \in DeviceArgs, v \in VersionArgs :
           inst' = [inst EXCEPT ![p].pc = "named", ![p].device = d,
                                ![p].android_version = v, ![p].adb_name = adb_name_id]
    /\ UNCHANGED << adb_name_id, built >>

\* the two membership tests; either raises RuntimeError
Validate(p) ==
    /\ UNCHANGED << pollVars, configVars, moveVars, lifeVars >>
    /\ inst[p].pc = "named"
    /\ inst' =
         IF SupportedDevice(inst[p].device) /\ SupportedVersion(inst[p].android_version)
         THEN [inst EXCEPT ![p].pc = "validated",
                           ![p].api_level = API_LEVEL[inst[p].android_version]]
         ELSE [inst EXCEPT ![p].pc = "failed", ![p].id_at_exit = adb_name_id]
    /\ UNCHANGED << adb_name_id, built >>

\* workdir = get_env_value_or_raise(ENV.WORK_PATH) and the paths joined from it
DerivePaths(p) ==
    /\ UNCHANGED << pollVars, configVars, moveVars, lifeVars >>
    /\ inst[p].pc = "validated"
    /\ \E work_path_set \in BOOLEAN :
           inst' = IF work_path_set
                   THEN [inst EXCEPT ![p].pc = "paths", ![p].paths = TRUE]
                   ELSE [inst EXCEPT ![p].pc = "failed", ![p].id_at_exit = adb_name_id]
    /\ UNCHANGED << adb_name_id, built >>

\* Emulator.adb_name_id += 2: the attribute is loaded ...
LoadAdbNameId(p) ==
    /\ UNCHANGED << pollVars, configVars, moveVars, lifeVars >>
    /\ inst[p].pc = "paths"
    /\ inst' = [inst EXCEPT ![p].pc = "loaded", ![p].loaded = adb_name_id]
    /\ UNCHANGED << adb_name_id, built >>

\* ... and the sum is stored; the rest of __init__ only fills form_data
StoreAdbNameId(p) ==
    /\ UNCHANGED << pollVars, configVars, moveVars, lifeVars >>
    /\ inst[p].pc = "loaded"
    /\ adb_name_id' = IncrementedId(inst[p].loaded)
    /\ inst' = [inst EXCEPT ![p].pc = "done", ![p].id_at_exit = adb_name_id']
    /\ built' = Append(built, inst[p].adb_name)

\* no constructor other than p's is between its first and last statement
OthersAtRest(p) ==
    \A q \in Instances \ {p} : inst[q].pc \in {"new", "done", "failed"}

CtorInit ==
    /\ adb_name_id = InitialAdbNameId
    /\ inst = [p \in Instances |-> NewInstance]
    /\ built = << >>

(***************************************************************************)
(* is_initialized                                                          *)
(***************************************************************************)
\* lines config.ini may hold
ConfigLines ==
    { "hw.device.name=" \o d \o "\n" : d \in DEVICE }
    \cup { "hw.device.name = Samsung Galaxy S7\n",
           "hw.device.name = Nexus 5\n",
           "#hw.device.name=Nexus 5\n",
           "hw.keyboard=yes\n" }

NoConfigFile == [exists |-> FALSE, lines |-> << >>]

ConfigFiles ==
    {NoConfigFile} \cup
    { [exists |-> TRUE, lines |-> l] :
        l \in UNION { [1..n -> ConfigLines] : n \in 0..MaxConfigLines } }

StartsWith(s, prefix) ==
    Len(prefix) <= Len(s) /\ SubSeq(s, 1, Len(prefix)) = prefix

\* the texts matched by the pattern  hw\.device\.name ?= ?{device}
PatternTexts(d) ==
    { "hw.device.name" \o a \o "=" \o b \o d : a \in {"", " "}, b \in {"", " "} }

\* re.match(pattern, line): the pattern is matched at the start of the line
re_match(d, line) ==
    \E t \in PatternTexts(d) : StartsWith(line, t)

\* re.match for every device and line, computed once
LineMatches == [d \in DEVICE, l \in ConfigLines |-> re_match(d, l)]

\* the value is_initialized returns for a config file and a device
IsInitialized(config, d) ==
    IF config.exists
    THEN IF \E i \in 1..Len(config.lines) : LineMatches[d, config.lines[i]]
         THEN "True" ELSE "False"
    ELSE "False"

is_initialized ==
    /\ initialized = "none"
    /\ initialized' = IsInitialized(path_emulator_config, device)
    /\ UNCHANGED << path_emulator_config, device >>
    /\ UNCHANGED << pollVars, ctorVars, moveVars, lifeVars >>

ConfigInit ==
    /\ path_emulator_config \in ConfigFiles
    /\ device \in DEVICE
    /\ initialized = "none"

ConfigIdle ==
    /\ path_emulator_config = NoConfigFile
    /\ device = "Nexus 5"
    /\ initialized = "none"

(***************************************************************************)
(* move_userdata                                                           *)
(***************************************************************************)
userdata_filenames ==
    << "userdata.img", "userdata-qemu.img", "userdata-qemu.img.qcow2", "cache.img" >>

FileNames == { userdata_filenames[i] : i \in 1..Len(userdata_filenames) }

NoFile == "NoFile"
LiveData == "live data"
OldBackup == "old backup"
PartialCopy == "partial copy"

\* cp -f -a source destination: the destination afterwards.  Without a source
\* cp fails and writes nothing; with one it copies, or fails leaving the
\* destination as it was or partly written
CopyResults(source, destination) ==
    IF source = NoFile THEN {destination}
    ELSE {source, destination, PartialCopy}

\* rm -f file_path: the file afterwards (removed, or kept when rm fails)
RemoveResults(file) == {NoFile, file}

\* variant of ExistsBeforeDelete: the destination is the file tested
ExistsAtDestination(live, durable) == durable # NoFile

\* os.path.exists(file_path), file_path being the file in the live directory
ExistsBeforeDelete(live, durable) == live # NoFile

\* copy_result.returncode == 0
CopyReturnedZero(source, copied) == source # NoFile /\ copied = source

\* the message logged after the copy
CopyMessage(source, copied) ==
    IF CopyReturnedZero(source, copied) THEN "Copied" ELSE "Failed to Copy"

\* the message logged after the delete (delete_result.returncode == 0 or not)
DeleteMessage(file, left) ==
    IF left = NoFile THEN "Deleted" ELSE "Failed to Delete"

\* move_userdata is called
move_userdata ==
    /\ move_i = 0
    /\ move_i' = 1
    /\ live_before' = emulator_userdata
    /\ UNCHANGED << emulator_userdata, path_user_data, rm_issued, seen_after_copy,
                    move_log >>
    /\ UNCHANGED << pollVars, ctorVars, configVars, lifeVars >>

\* one iteration of the loop over userdata_filenames
MoveFile ==
    /\ move_i \in 1..Len(userdata_filenames)
    /\ LET file_name == userdata_filenames[move_i]
           source == emulator_userdata[file_name]
       IN  \E copied \in CopyResults(source, path_user_data[file_name]) :
             /\ path_user_data' = [path_user_data EXCEPT ![file_name] = copied]
             /\ IF ExistsBeforeDelete(source, copied)
                THEN /\ \E left \in RemoveResults(source) :
                          /\ emulator_userdata' =
                                [emulator_userdata EXCEPT ![file_name] = left]
                          /\ move_log' = Append(move_log,
                                << CopyMessage(source, copied), DeleteMessage(source, left) >>)
                     /\ rm_issued' = rm_issued \cup {file_name}
                ELSE /\ move_log' = Append(move_log,
                                << CopyMessage(source, copied), "does not exist" >>)
                     /\ UNCHANGED << emulator_userdata, rm_issued >>
             /\ seen_after_copy' =
                    IF source # NoFile THEN seen_after_copy \cup {file_name}
                    ELSE seen_after_copy
    /\ move_i' = move_i + 1
    /\ UNCHANGED live_before
    /\ UNCHANGED << pollVars, ctorVars, configVars, lifeVars >>

MoveInit ==
    /\ emulator_userdata \in [FileNames -> {NoFile, LiveData}]
    /\ path_user_data \in [FileNames -> {NoFile, OldBackup}]
    /\ move_i = 0
    /\ live_before = emulator_userdata
    /\ rm_issued = {}
    /\ seen_after_copy = {}
    /\ move_log = << >>

MoveIdle ==
    /\ emulator_userdata = [f \in FileNames |-> NoFile]
    /\ path_user_data = [f \in FileNames |-> NoFile]
    /\ move_i = 0
    /\ live_before = emulator_userdata
    /\ rm_issued = {}
    /\ seen_after_copy = {}
    /\ move_log = << >>

(***************************************************************************)
(* subprocess.run and subprocess.check_call                                *)
(***************************************************************************)
Ok == "ok"
ExitStatuses == {0, 1}

\* variant of subprocess_run: a non-zero exit status raises
RunChecked(returncode) == IF returncode = 0 THEN Ok ELSE CalledProcessError

\* subprocess.run without check=True: the exit status is not looked at
subprocess_run(returncode) == Ok

\* variant of subprocess_check_call: the exit status is not looked at
CheckCallUnchecked(returncode) == Ok

\* subprocess.check_call: a non-zero exit status raises CalledProcessError
subprocess_check_call(returncode) ==
    IF returncode = 0 THEN Ok ELSE CalledProcessError

(***************************************************************************)
(* tear_down and backup                                                    *)
(***************************************************************************)
\* tear_down is called: it logs and calls backup
tear_down ==
    /\ td_pc = "idle"
    /\ td_pc' = "backup"
    /\ backup_calls' = backup_calls + 1
    /\ backup_i' = 1
    /\ live_before' = emulator_userdata
    /\ UNCHANGED << cp_attempted, cp_failed >>
    /\ UNCHANGED << emulator_userdata, path_user_data, move_i, rm_issued,
                    seen_after_copy, move_log >>
    /\ UNCHANGED << pollVars, ctorVars, configVars, createVars, startVars >>

\* one iteration of the loop of backup: cp from the live directory to the
\* durable store, then "Copied ..." is logged
BackupFile ==
    /\ td_pc = "backup"
    /\ backup_i \in 1..Len(userdata_filenames)
    /\ LET file_name == userdata_filenames[backup_i]
           source == emulator_userdata[file_name]
       IN  \E copied \in CopyResults(source, path_user_data[file_name]) :
             LET returncode == IF CopyReturnedZero(source, copied) THEN 0 ELSE 1
             IN  /\ path_user_data' = [path_user_data EXCEPT ![file_name] = copied]
                 /\ cp_attempted' = Append(cp_attempted, file_name)
                 /\ cp_failed' = IF returncode = 0 THEN cp_failed
                                 ELSE cp_failed \cup {file_name}
                 /\ IF subprocess_run(returncode) = Ok
                    THEN backup_i' = backup_i + 1 /\ td_pc' = td_pc
                    ELSE backup_i' = backup_i /\ td_pc' = "raised"
    /\ UNCHANGED backup_calls
    /\ UNCHANGED << emulator_userdata, move_i, live_before, rm_issued,
                    seen_after_copy, move_log >>
    /\ UNCHANGED << pollVars, ctorVars, configVars, createVars, startVars >>

\* backup returns; "Sigterm is detected! Nothing to do!" is logged
TearDownReturn ==
    /\ td_pc = "backup"
    /\ backup_i > Len(userdata_filenames)
    /\ td_pc' = "returned"
    /\ UNCHANGED << backup_i, backup_calls, cp_attempted, cp_failed >>
    /\ UNCHANGED << pollVars, ctorVars, configVars, moveVars, createVars, startVars >>

TearIdle ==
    /\ td_pc = "idle"
    /\ backup_i = 0
    /\ backup_calls = 0
    /\ cp_attempted = << >>
    /\ cp_failed = {}

(***************************************************************************)
(* create, _add_profile and _add_skin                                      *)
(***************************************************************************)
\* variant of first_run: the device is created whatever is_initialized says
FirstRunAlways(init) == TRUE

\* first_run = not self.is_initialized()
first_run(init) == init # "True"

\* "samsung" in self.device.lower(), for every device
IsSamsung == [d \in DEVICE |-> Contains("samsung", lower(d))]

\* str.replace(" ", "_")
RECURSIVE replace_space(_)
replace_space(s) ==
    IF Len(s) = 0 THEN ""
    ELSE (IF CharAt(s, 1) = " " THEN "_" ELSE CharAt(s, 1))
             \o replace_space(SubSeq(s, 2, Len(s)))

\* self.file_name = self.device.replace(" ", "_").lower(), for every device
device_file_name == [d \in DEVICE |-> lower(replace_space(d))]

\* a value of the constructor argument data_partition
data_partition == "550m"

\* the three lines _add_skin appends to config.ini
SkinLines(d, ns) ==
    << "hw.keyboard=yes\n",
       "disk.dataPartition.size=" \o data_partition \o "\n",
       "skin.path=" \o (IF ns THEN "_no_skin" ELSE "skins/" \o device_file_name[d]) \o "\n" >>

\* config.ini as avdmanager create avd -f -d device leaves it
CreatedConfig(d) == [exists |-> TRUE, lines |-> << "hw.device.name=" \o d \o "\n" >>]

\* create is called: first_run is computed from is_initialized
create ==
    /\ create_pc = "idle"
    /\ initialized' = IsInitialized(path_emulator_config, device)
    /\ config_before' = path_emulator_config
    /\ create_pc' = IF first_run(initialized') THEN "user data" ELSE "returned"
    /\ UNCHANGED << path_emulator_config, device >>
    /\ UNCHANGED << create_trace, creation_calls, user_data_dir, no_skin >>
    /\ UNCHANGED << pollVars, ctorVars, moveVars, tearVars, startVars >>

\* os.makedirs(path_user_data) when the directory is missing, else
\* check_call of sudo chown; either may raise
PrepareUserData ==
    /\ create_pc = "user data"
    /\ create_trace' = Append(create_trace, "userdata directory")
    /\ IF ~user_data_dir
       THEN \E made \in BOOLEAN :
                /\ user_data_dir' = made
                /\ create_pc' = IF made THEN "profile" ELSE "raised"
       ELSE \E returncode \in ExitStatuses :
                /\ create_pc' = IF subprocess_check_call(returncode) = Ok
                                THEN "profile" ELSE "raised"
                /\ UNCHANGED user_data_dir
    /\ UNCHANGED << creation_calls, config_before, no_skin >>
    /\ UNCHANGED << pollVars, ctorVars, configVars, moveVars, tearVars, startVars >>

\* _add_profile: the profile is linked for a Samsung device only
_add_profile ==
    /\ create_pc = "profile"
    /\ IF IsSamsung[device]
       THEN /\ create_trace' = Append(create_trace, "profile link")
            /\ \E linked \in BOOLEAN :
                   create_pc' = IF linked THEN "creation" ELSE "raised"
       ELSE /\ create_pc' = "creation"
            /\ UNCHANGED create_trace
    /\ UNCHANGED << creation_calls, config_before, user_data_dir, no_skin >>
    /\ UNCHANGED << pollVars, ctorVars, configVars, moveVars, tearVars, startVars >>

\* subprocess.check_call(creation_cmd, shell=True)
CreationCommand ==
    /\ create_pc = "creation"
    /\ create_trace' = Append(create_trace, "creation command")
    /\ creation_calls' = creation_calls + 1
    /\ \E returncode \in ExitStatuses :
           IF subprocess_check_call(returncode) = Ok
           THEN /\ path_emulator_config' = CreatedConfig(device)
                /\ create_pc' = "skin"
           ELSE /\ create_pc' = "raised"
                /\ UNCHANGED path_emulator_config
    /\ UNCHANGED << device, initialized >>
    /\ UNCHANGED << config_before, user_data_dir, no_skin >>
    /\ UNCHANGED << pollVars, ctorVars, moveVars, tearVars, startVars >>

\* _add_skin, then "... is created!" is logged and create returns
_add_skin ==
    /\ create_pc = "skin"
    /\ create_trace' = Append(create_trace, "skin config")
    /\ path_emulator_config' =
           [exists |-> TRUE,
            lines |-> path_emulator_config.lines \o SkinLines(device, no_skin)]
    /\ create_pc' = "returned"
    /\ UNCHANGED << device, initialized >>
    /\ UNCHANGED << creation_calls, config_before, user_data_dir, no_skin >>
    /\ UNCHANGED << pollVars, ctorVars, moveVars, tearVars, startVars >>

CreateInit ==
    /\ create_pc = "idle"
    /\ create_trace = << >>
    /\ creation_calls = 0
    /\ config_before = path_emulator_config
    /\ user_data_dir \in BOOLEAN
    /\ no_skin \in BOOLEAN

CreateIdle ==
    /\ create_pc = "idle"
    /\ create_trace = << >>
    /\ creation_calls = 0
    /\ config_before = path_emulator_config
    /\ user_data_dir = FALSE
    /\ no_skin = FALSE

(***************************************************************************)
(* start, change_permission and deploy                                     *)
(***************************************************************************)
\* the file of path_user_data that init_user_data_file names
init_user_data_file == "userdata-qemu.img"

\* cmds of change_permission
cmds == << "sudo chown 1300:1301 /dev/kvm", "sudo sed -i '1d' /etc/passwd" >>

\* any(os.path.isfile(os.path.join(self.path_user_data, file)) for file in ...)
backup_files_exist(store) ==
    \E i \in 1..Len(userdata_filenames) : store[userdata_filenames[i]] # NoFile

\* the file data_arg names: -initdata init_user_data_file, or no flag
DataArg(store) == IF backup_files_exist(store) THEN init_user_data_file ELSE ""

\* start is called
start ==
    /\ start_pc = "idle"
    /\ start_pc' = "change_permission"
    /\ UNCHANGED << kvm_exists, perm_log, launched, data_arg >>
    /\ UNCHANGED << pollVars, ctorVars, configVars, moveVars, tearVars, createVars >>

\* change_permission: RuntimeError when /dev/kvm is missing
change_permission ==
    /\ start_pc = "change_permission"
    /\ start_pc' = IF kvm_exists THEN "cmds" ELSE "raised"
    /\ UNCHANGED << kvm_exists, perm_log, launched, data_arg >>
    /\ UNCHANGED << pollVars, ctorVars, configVars, moveVars, tearVars, createVars >>

\* for c in cmds: subprocess.check_call(c, shell=True)
PermissionCommand ==
    /\ start_pc = "cmds"
    /\ Len(perm_log) < Len(cmds)
    /\ \E returncode \in ExitStatuses :
           /\ perm_log' = Append(perm_log, returncode)
           /\ start_pc' = IF subprocess_check_call(returncode) # Ok THEN "raised"
                          ELSE IF Len(perm_log') = Len(cmds) THEN "deploy"
                          ELSE "cmds"
    /\ UNCHANGED << kvm_exists, launched, data_arg >>
    /\ UNCHANGED << pollVars, ctorVars, configVars, moveVars, tearVars, createVars >>

\* the body of deploy: start_cmd is built and handed to subprocess.Popen
Deploy(from, to) ==
    /\ start_pc = from
    /\ data_arg' = DataArg(path_user_data)
    /\ launched' = launched + 1
    /\ start_pc' = to
    /\ UNCHANGED << kvm_exists, perm_log >>
    /\ UNCHANGED << pollVars, ctorVars, configVars, moveVars, tearVars, createVars >>

\* self.deploy() of start, after which start returns
StartDeploy == Deploy("deploy", "returned")

\* a direct call of deploy
deploy == Deploy("idle", "deployed")

StartInit ==
    /\ start_pc = "idle"
    /\ kvm_exists \in BOOLEAN
    /\ perm_log = << >>
    /\ launched = 0
    /\ data_arg = ""

StartIdle ==
    /\ start_pc = "idle"
    /\ kvm_exists = TRUE
    /\ perm_log = << >>
    /\ launched = 0
    /\ data_arg = ""

LifeIdle == TearIdle /\ CreateIdle /\ StartIdle

(***************************************************************************)
(* Specifications                                                          *)
(***************************************************************************)
\* the poller: direct calls of check_adb_command and wait_until_ready
Init == PollInit /\ CtorInit /\ ConfigIdle /\ MoveIdle /\ LifeIdle
Next == PollNext
Spec == Init /\ [][Next]_vars

\* constructors run one after the other
NextConstruct ==
    \/ \E p \in Instances : OthersAtRest(p) /\ ReadAdbNameId(p)
    \/ \E p \in Instances : OthersAtRest(p) /\ Validate(p)
    \/ \E p \in Instances : OthersAtRest(p) /\ DerivePaths(p)
    \/ \E p \in Instances : OthersAtRest(p) /\ LoadAdbNameId(p)
    \/ \E p \in Instances : OthersAtRest(p) /\ StoreAdbNameId(p)
SpecConstruct == Init /\ [][NextConstruct]_vars

\* constructors run in threads, their statements interleaved
NextConcurrent ==
    \/ \E p \in Instances : ReadAdbNameId(p)
    \/ \E p \in Instances : Validate(p)
    \/ \E p \in Instances : DerivePaths(p)
    \/ \E p \in Instances : LoadAdbNameId(p)
    \/ \E p \in Instances : StoreAdbNameId(p)
SpecConcurrent == Init /\ [][NextConcurrent]_vars

\* is_initialized on every config file and device
InitConfig == PollInit /\ CtorInit /\ ConfigInit /\ MoveIdle /\ LifeIdle
NextConfig == is_initialized
SpecConfig == InitConfig /\ [][NextConfig]_vars

\* move_userdata on every content of the two directories
InitMove == PollInit /\ CtorInit /\ ConfigIdle /\ MoveInit /\ LifeIdle
NextMove == move_userdata \/ MoveFile
SpecMove == InitMove /\ [][NextMove]_vars

\* tear_down on every content of the two directories
InitTearDown ==
    PollInit /\ CtorInit /\ ConfigIdle /\ MoveInit /\ TearIdle /\ CreateIdle /\ StartIdle
NextTearDown == tear_down \/ BackupFile \/ TearDownReturn
SpecTearDown == InitTearDown /\ [][NextTearDown]_vars

\* create on every config file and device
InitCreate ==
    PollInit /\ CtorInit /\ ConfigInit /\ MoveIdle /\ TearIdle /\ CreateInit /\ StartIdle
NextCreate == create \/ PrepareUserData \/ _add_profile \/ CreationCommand \/ _add_skin
SpecCreate == InitCreate /\ [][NextCreate]_vars

\* start, and deploy alone, on every content of the durable store
InitStart ==
    /\ PollInit /\ CtorInit /\ ConfigIdle /\ TearIdle /\ CreateIdle /\ StartInit
    /\ emulator_userdata = [f \in FileNames |-> NoFile]
    /\ path_user_data \in [FileNames -> {NoFile, OldBackup}]
    /\ move_i = 0
    /\ live_before = emulator_userdata
    /\ rm_issued = {}
    /\ seen_after_copy = {}
    /\ move_log = << >>
NextStart == start \/ change_permission \/ PermissionCommand \/ StartDeploy \/ deploy
SpecStart == InitStart /\ [][NextStart]_vars

(***************************************************************************)
(* Properties of check_adb_command and wait_until_ready                    *)
(***************************************************************************)
CallEnded == pc \in {"returned", "raised"}
Required == readiness_check_type # POP_UP_WINDOW

\* C1: a required check (BOOTED, RUN_STATE, WELCOME_SCREEN) aborts exactly
\* when no attempt of its budget saw the keyword; a match on any attempt,
\* the last one included, makes the call return normally.
C1_AbortsIffNoMatch ==
    (Required /\ CallEnded) => ((pc = "raised") <=> ~sawMatch)

\* C2: a POP_UP_WINDOW check never aborts, whatever max_attempts and whatever
\* the outcomes of bash_command and adb_action; once its range is used up it
\* has logged "not found" and returned.
C2_PopUpNeverAborts ==
    (pc # "idle" /\ readiness_check_type = POP_UP_WINDOW) =>
        /\ pc # "raised"
        /\ stage # "aborted"
        /\ (pc = "returned" => notFoundLogged /\ checkedTimes = 0)
        /\ (pc = "loop" => ~notFoundLogged)

\* C2 witness: a pop-up call of one attempt whose output matched and whose
\* adb_action failed has returned.
C2_Witness ==
    /\ readiness_check_type = POP_UP_WINDOW
    /\ pc = "returned"
    /\ max_attempts = 2
    /\ sawMatch
    /\ sawFail
    /\ actionCalls = 1

\* C3: a required check with max_attempts = n >= 2 whose bash_command always
\* runs and never shows the keyword invokes it exactly n - 1 times and then
\* raises "... is checked n - 1 times!".
C3_MissesUseBudgetMinusOne ==
    (Required /\ max_attempts >= 2 /\ ~sawMatch /\ ~sawFail /\ pc # "idle") =>
        /\ diagCalls <= max_attempts - 1
        /\ pc # "returned"
        /\ (pc = "raised" =>
                /\ diagCalls = max_attempts - 1
                /\ checkedTimes = max_attempts - 1)

\* C3 witness: max_attempts = 3, two misses, then the exhaustion error.
C3_Witness ==
    /\ Required
    /\ max_attempts = 3
    /\ pc = "raised"
    /\ ~sawMatch
    /\ ~sawFail
    /\ diagCalls = 2
    /\ checkedTimes = 2

\* C4: in a POP_UP_WINDOW check an output containing the expected signature
\* runs adb_action exactly once and ends the check at once: bash_command is
\* not invoked again and "not found" is not logged.
C4_PopUpMatchEndsCheck ==
    (readiness_check_type = POP_UP_WINDOW /\ sawVerbatim /\ pc = "returned") =>
        /\ actionCalls = 1
        /\ ~diagAfterVerbatim
        /\ ~notFoundLogged

\* C5: in the WELCOME_SCREEN check of wait_until_ready a first output that
\* contains "launcheractivity" in any letter case is a match: the check
\* succeeds after one invocation of bash_command, without sleeping and
\* without raising; and no required check invokes bash_command after a match.
C5_WelcomeFirstMatch ==
    /\ (readiness_check_type = WELCOME_SCREEN /\ max_attempts = welcome_max_attempts
            /\ stage \in {"welcome_screen", "ready", "aborted"} /\ firstAnyCase) =>
           /\ diagCalls = 1
           /\ success
           /\ ~slept
           /\ pc \in {"loop", "returned"}
           /\ (pc = "loop" => attempt + 1 \in AttemptRange(max_attempts))
    /\ (Required => ~diagAfterMatch)

\* C5 witness: the device is ready after a first output spelling
\* LauncherActivity with capitals.
C5_Witness ==
    /\ stage = "ready"
    /\ firstAnyCase
    /\ ~sawVerbatim
    /\ diagCalls = 1
    /\ pc = "returned"

(***************************************************************************)
(* Properties of the constructor                                           *)
(***************************************************************************)
Constructed == { p \in Instances : inst[p].pc = "done" }
AllAtRest == \A p \in Instances : inst[p].pc \in {"new", "done", "failed"}

\* C6: over any sequence of constructions, failing ones included, the ids of
\* the constructed objects are 5554, 5556, 5558, ... in order of construction:
\* strictly increasing, never repeated, each 2 above the previous one.
C6_IdsAscendByTwo ==
    /\ \A i \in 1..Len(built) : built[i] = InitialAdbNameId + 2 * (i - 1)
    /\ \A p \in Constructed : \E i \in 1..Len(built) : built[i] = inst[p].adb_name
    /\ Len(built) = Cardinality(Constructed)

\* C6 witness: a construction succeeded, the next one failed after reading
\* 5556, and a third one succeeded.
C6_Witness ==
    /\ Len(built) = 2
    /\ \E p \in Instances :
           inst[p].pc = "failed" /\ inst[p].adb_name = InitialAdbNameId + 2

\* C7: when constructors run concurrently no two constructed objects hold the
\* same id and, once all are at rest, the counter has advanced by 2 for each
\* constructed object.
C7_NoCollisionNoLostIncrement ==
    /\ \A p, q \in Constructed : p # q => inst[p].adb_name # inst[q].adb_name
    /\ AllAtRest => adb_name_id = InitialAdbNameId + 2 * Cardinality(Constructed)

\* C8: a construction whose device or android_version is not supported fails
\* at the membership tests: it never derives a path from the work directory
\* and the counter is at its exit what it was at its entry.
C8_UnsupportedFailsEarly ==
    \A p \in Instances :
        (inst[p].pc # "new" /\
         ~(inst[p].device \in DEVICE /\ inst[p].android_version \in DOMAIN API_LEVEL)) =>
            /\ inst[p].pc \in {"named", "failed"}
            /\ ~inst[p].paths
            /\ inst[p].api_level = ""
            /\ (inst[p].pc = "failed" => inst[p].id_at_exit = inst[p].adb_name)

\* C8 witness: after one successful construction, one with the unsupported
\* device "Pixel 4" and a supported version has failed with the counter at 5556.
C8_Witness ==
    \E p \in Instances :
        /\ inst[p].pc = "failed"
        /\ inst[p].device = "Pixel 4"
        /\ inst[p].android_version = "13.0"
        /\ inst[p].id_at_exit = InitialAdbNameId + 2
        /\ adb_name_id = InitialAdbNameId + 2

(***************************************************************************)
(* Properties of is_initialized                                            *)
(***************************************************************************)
\* the line assigns exactly the name d to hw.device.name
ExactAssignment(d, line) ==
    \E t \in PatternTexts(d) : line = t \/ line = t \o "\n"

\* C9: is_initialized returns True if and only if config.ini exists and has a
\* line assigning exactly the requested device name; a file naming another
\* supported device, one the requested name is a prefix of included, gives
\* False.
C9_TrueIffExactLine ==
    initialized # "none" =>
        ( initialized = "True" <=>
            /\ path_emulator_config.exists
            /\ \E i \in 1..Len(path_emulator_config.lines) :
                   ExactAssignment(device, path_emulator_config.lines[i]) )

(***************************************************************************)
(* Properties of move_userdata                                             *)
(***************************************************************************)
MoveDone == move_i > Len(userdata_filenames)

\* C10: move_userdata never loses data: rm is run on a live file only when
\* the file exists in the durable store after the copy, so every file that
\* was in the live directory is afterwards, with its content, in the live
\* directory or in the durable store.
C10_MoveNeverLosesData ==
    /\ \A f \in rm_issued : path_user_data[f] # NoFile
    /\ MoveDone =>
           \A f \in FileNames :
               live_before[f] # NoFile =>
                   \/ emulator_userdata[f] = live_before[f]
                   \/ path_user_data[f] = live_before[f]

\* the files move_userdata has handled so far
Handled == { userdata_filenames[i] : i \in 1..Len(move_log) }

\* C11: for each of the four files rm is run if and only if the live file is
\* found to exist after the copy; rm is never run for a file that was not in
\* the live directory; a missing source and a failing cp or rm are only
\* logged, so every file of the list is handled in turn.
C11_DeleteIffLiveExists ==
    /\ rm_issued = seen_after_copy
    /\ rm_issued = { f \in Handled : live_before[f] # NoFile }
    /\ move_i >= 1 => Len(move_log) = move_i - 1
    /\ \A i \in 1..Len(move_log) :
           /\ (move_log[i][2] = "does not exist")
                 <=> (live_before[userdata_filenames[i]] = NoFile)
           /\ live_before[userdata_filenames[i]] = NoFile
                 => move_log[i][1] = "Failed to Copy"

\* C11 witness: the first file was missing, the copy of the second and the rm
\* of the third failed, and the fourth was still copied and deleted.
C11_Witness ==
    /\ MoveDone
    /\ move_log[1] = << "Failed to Copy", "does not exist" >>
    /\ move_log[2][1] = "Failed to Copy" /\ "userdata-qemu.img" \in rm_issued
    /\ move_log[3][2] = "Failed to Delete"
    /\ move_log[4] = << "Copied", "Deleted" >>
    /\ rm_issued = FileNames \ {"userdata.img"}

(***************************************************************************)
(* Properties of wait_until_ready as a whole                               *)
(***************************************************************************)
IsPrefix(t, u) == Len(t) <= Len(u) /\ SubSeq(u, 1, Len(t)) = t

\* the orders in which wait_until_ready may enter its stages
StageOrders ==
    { << "booted", "settle", "pop_up_system_ui", a, b, c, "welcome_screen", "ready" >> :
        a \in pop_up_key_enter, b \in pop_up_key_enter, c \in pop_up_key_enter }

DistinctPopUps(t) ==
    \A i, j \in 4..6 : (i < j /\ j <= Len(t)) => t[i] # t[j]

\* C12: wait_until_ready enters BOOTED check, settle delay, system-UI pop-up
\* check, the three other pop-up checks in some order and the WELCOME_SCREEN
\* check, in that order; "ready" comes last, after the BOOTED and
\* WELCOME_SCREEN checks saw their keyword; when the BOOTED check raises
\* nothing more is run; a pop-up check never stops the sequence.
C12_StagesInOrder ==
    /\ (stage = "none") <=> (wur_trace = << >>)
    /\ \E o \in StageOrders : IsPrefix(wur_trace, o)
    /\ DistinctPopUps(wur_trace)
    /\ stage = "ready" =>
           /\ Len(wur_trace) = 8
           /\ {BOOTED, WELCOME_SCREEN} \subseteq matched_checks
           /\ pc = "returned"
    /\ stage \in {"welcome_screen", "ready"} => BOOTED \in matched_checks
    /\ (stage = "aborted" /\ readiness_check_type = BOOTED) =>
           /\ wur_trace = << "booted" >>
           /\ total_diag = diagCalls
           /\ actionCalls = 0
           /\ ~ENABLED Next
    /\ stage \in {"pop_up_system_ui", "pop_up_key_enter"} =>
           /\ readiness_check_type = POP_UP_WINDOW
           /\ pc # "raised"
           /\ (pc = "returned" /\ pop_up_left = {} /\ stage = "pop_up_key_enter")
                  => ENABLED WelcomeScreen
    /\ stage = "aborted" => readiness_check_type \in {BOOTED, WELCOME_SCREEN}

\* C12 witness: the device is ready after all eight stages, the pop-up checks
\* having found nothing.
C12_Witness ==
    /\ stage = "ready"
    /\ Len(wur_trace) = 8
    /\ wur_trace[4] = "ConversationListActivity"
    /\ POP_UP_WINDOW \notin matched_checks
    /\ total_diag > 10

(***************************************************************************)
(* Properties of the except clause of check_adb_command                    *)
(***************************************************************************)
\* the range of the loop is used up
RangeUsedUp == attempt + 1 \notin AttemptRange(max_attempts)

\* C14: a bash_command that exits non-zero does not end the call: it is
\* followed by a sleep of 2 seconds, not of interval_waiting_time, and by the
\* next step of the loop; it uses one attempt of the budget, so bash_command
\* runs at most max_attempts - 1 times per call; the call raises only from
\* the else clause of the loop, for a kind other than POP_UP_WINDOW.
C14_DiagFailureIsRetried ==
    /\ lastOutcome = "failed" =>
           /\ lastSleep = "2"
           /\ sawFail /\ slept /\ ~success
           /\ diagCalls = attempt
           /\ pc \in {"loop", ExhaustedPc(readiness_check_type)}
           /\ pc = "loop" =>
                  IF RangeUsedUp
                  THEN ENABLED Exhausted
                  ELSE ENABLED AttemptFailed /\ ENABLED AttemptMiss
           /\ pc # "loop" => RangeUsedUp
    /\ diagCalls <= attempt
    /\ max_attempts >= 1 => diagCalls <= max_attempts - 1
    /\ max_attempts = 0 => diagCalls = 0
    /\ pc = "raised" => RangeUsedUp /\ readiness_check_type # POP_UP_WINDOW

\* C14 witness: a WELCOME_SCREEN check whose bash_command failed went on,
\* found its keyword at a later attempt and returned.
C14_Witness ==
    /\ readiness_check_type = WELCOME_SCREEN
    /\ sawFail
    /\ success
    /\ pc = "returned"
    /\ diagCalls >= 2

(***************************************************************************)
(* Properties of the keyword comparison inside wait_until_ready            *)
(***************************************************************************)
\* C18: in every check of wait_until_ready an output of bash_command that
\* contains the expected keyword as it is written is classified as a match
\* (the keyword branch is taken at that attempt).
C18_VerbatimOutputMatches ==
    stage # "none" => (sawVerbatim => sawMatch)

(***************************************************************************)
(* Termination of check_adb_command and wait_until_ready                   *)
(***************************************************************************)
\* every invocation of bash_command and adb_action returns, so the poller
\* always takes its next step
SpecLive == Spec /\ WF_vars(Next)

\* the invocations of bash_command the four kinds of check of
\* wait_until_ready may make: 59 + 2 + 3 * 2 + 59
DiagBudget ==
    (boot_max_attempts - 1) + (max_attempt_pop_up - 1)
        + Cardinality(pop_up_key_enter) * (max_attempt_pop_up - 1)
        + (welcome_max_attempts - 1)

\* C19: every call of check_adb_command ends, returning or raising;
\* wait_until_ready ends with the device reported ready or with the error of
\* a required check; bash_command has then run at most
\* 59 + 2 + 3 * 2 + 59 times in total.
C19_TerminatesWithinBudget ==
    /\ [](total_diag <= DiagBudget)
    /\ [](pc = "loop" => <>(pc \in {"returned", "raised"}))
    /\ [](stage # "none" => <>(stage \in {"ready", "aborted"}))
    /\ <>(pc \in {"returned", "raised"})

\* C19 witness: the WELCOME_SCREEN check raised after its 59 attempts, the
\* BOOTED check having matched at its 58th attempt and each pop-up check
\* having used its two attempts: 58 + 8 + 59 invocations.
C19_Witness ==
    /\ stage = "aborted"
    /\ readiness_check_type = WELCOME_SCREEN
    /\ diagCalls = welcome_max_attempts - 1
    /\ total_diag = DiagBudget - 1

(***************************************************************************)
(* Properties of tear_down                                                 *)
(***************************************************************************)
\* C13: tear_down calls backup once and returns whatever the copies did: a
\* cp that fails (a missing live file among others) raises nothing, cp is
\* still run on the files after it, in the order of userdata_filenames, and
\* the live directory stays as it was.
C13_TearDownBacksUpOnce ==
    /\ td_pc # "raised"
    /\ backup_calls = (IF td_pc = "idle" THEN 0 ELSE 1)
    /\ emulator_userdata = live_before
    /\ td_pc = "backup" =>
           /\ backup_i \in 1..(Len(userdata_filenames) + 1)
           /\ cp_attempted = SubSeq(userdata_filenames, 1, backup_i - 1)
           /\ backup_i <= Len(userdata_filenames) => ENABLED BackupFile
           /\ backup_i > Len(userdata_filenames) => ENABLED TearDownReturn
    /\ td_pc = "returned" => cp_attempted = userdata_filenames
    /\ \A f \in FileNames :
           (live_before[f] = NoFile /\ \E i \in 1..Len(cp_attempted) : cp_attempted[i] = f)
               => f \in cp_failed

\* C13 witness: tear_down returned although the first live file was missing
\* and the copy of the second failed; the last file was copied.
C13_Witness ==
    /\ td_pc = "returned"
    /\ live_before["userdata.img"] = NoFile
    /\ live_before["userdata-qemu.img"] = LiveData
    /\ {"userdata.img", "userdata-qemu.img"} \subseteq cp_failed
    /\ path_user_data["cache.img"] = LiveData
    /\ "cache.img" \notin cp_failed

(***************************************************************************)
(* Properties of create                                                    *)
(***************************************************************************)
\* the steps of a first run, in the order of the code
CreateOrder(d) ==
    IF IsSamsung[d]
    THEN << "userdata directory", "profile link", "creation command", "skin config" >>
    ELSE << "userdata directory", "creation command", "skin config" >>

InTrace(step) == \E i \in 1..Len(create_trace) : create_trace[i] = step

\* C15: create runs the creation command at most once and only when
\* is_initialized returned False; when it returned True create runs no command
\* and writes nothing; on a first run the steps are userdata directory,
\* profile link, creation command, skin lines, in that order; when a step
\* raises, the creation command included, nothing is retried and the skin
\* lines are not appended.
C15_CreateOnceInOrder ==
    /\ creation_calls <= 1
    /\ creation_calls = 1 <=> InTrace("creation command")
    /\ create_pc # "idle" =>
           /\ IsPrefix(create_trace, CreateOrder(device))
           /\ IsInitialized(config_before, device) = "True" =>
                  /\ create_pc = "returned"
                  /\ create_trace = << >>
                  /\ path_emulator_config = config_before
           /\ (IsInitialized(config_before, device) = "False" /\ create_pc = "returned") =>
                  /\ create_trace = CreateOrder(device)
                  /\ path_emulator_config.lines =
                         CreatedConfig(device).lines \o SkinLines(device, no_skin)
           /\ create_pc = "raised" =>
                  /\ ~InTrace("skin config")
                  /\ path_emulator_config = config_before
                  /\ ~ENABLED NextCreate

\* C15 witness: config.ini names another device, so this is a first run of a
\* Samsung device; the creation command failed after the directory and the
\* profile link.
C15_Witness ==
    /\ create_pc = "raised"
    /\ config_before.exists
    /\ creation_calls = 1
    /\ create_trace = << "userdata directory", "profile link", "creation command" >>

(***************************************************************************)
(* Properties of start and deploy                                          *)
(***************************************************************************)
StartCalled == start_pc \notin {"idle", "deployed"}

\* C16: start runs change_permission before deploy: nothing is launched when
\* /dev/kvm is missing or one of the two commands exits non-zero, start then
\* raises and runs nothing more; when both commands succeed the process is
\* launched exactly once and start returns without a readiness check.
C16_PermissionBeforeLaunch ==
    StartCalled =>
        /\ launched = (IF start_pc = "returned" THEN 1 ELSE 0)
        /\ launched = 1 => kvm_exists /\ perm_log = << 0, 0 >>
        /\ ~kvm_exists =>
               /\ start_pc \in {"change_permission", "raised"}
               /\ perm_log = << >>
        /\ Len(perm_log) <= Len(cmds)
        /\ \A i \in 1..Len(perm_log) :
               perm_log[i] # 0 => (i = Len(perm_log) /\ start_pc = "raised")
        /\ start_pc = "deploy" => perm_log = << 0, 0 >>
        /\ start_pc = "raised" => ~ENABLED NextStart
        /\ start_pc = "returned" => (pc = "idle" /\ stage = "none" /\ ~ENABLED NextStart)

\* C16 witness: /dev/kvm exists, chown succeeded, sed failed: start raised
\* and nothing was launched.
C16_Witness ==
    /\ start_pc = "raised"
    /\ kvm_exists
    /\ perm_log = << 0, 1 >>
    /\ launched = 0

\* C17: when deploy launches the device with -initdata, the file the flag
\* names exists in the durable store, whichever of the four userdata files
\* the store holds; without any of the four the flag is left out.
C17_InitDataTargetExists ==
    launched >= 1 =>
        /\ data_arg # "" => path_user_data[data_arg] # NoFile
        /\ (\A f \in FileNames : path_user_data[f] = NoFile) => data_arg = ""
====
